---------------------------- MODULE Spec2Model ----------------------------
(***************************************************************************)
(* A model of the save-file decoder of trilogy-save-editor                 *)
(* (src/src/save_data.rs): the SaveCursor, the provided methods of the     *)
(* SaveData trait (deserialize_from, deserialize_from_bool, the two enum   *)
(* decoders, deserialize_from_string, deserialize_from_array,              *)
(* deserialize_from_indexmap) and the SaveData implementations that call   *)
(* them.                                                                   *)
(*                                                                         *)
(* Machine words.  TLC's integers are 32-bit, so an i32 is modelled by its *)
(* value, and a u32 or a usize by its two's-complement signed view: the    *)
(* u32 0xFFFFFFFF and the usize 0xFFFFFFFFFFFFFFFF are both -1.  The view  *)
(* of an i32 cast `as usize` is its own value (the cast sign-extends).     *)
(* Only usize values below 2^31 or at least 2^64 - 2^31 occur: positions,  *)
(* lengths, sizes, and i32 values cast to usize.  Unsigned comparisons are *)
(* made with UnsignedLt.                                                   *)
(*                                                                         *)
(* Overflow.  Rust's +, * and i32::abs panic on overflow when the build    *)
(* has overflow checks (the debug profile) and wrap when it has none (the  *)
(* release profile).  The profile is the variable overflow_checks, fixed   *)
(* when the program starts.                                                *)
(*                                                                         *)
(* Memory is taken to be unbounded: Vec::with_capacity and                 *)
(* IndexMap::with_capacity always succeed.                                 *)
(***************************************************************************)
EXTENDS Integers, Sequences, FiniteSets, TLC

VARIABLES
    bytes,            \* SaveCursor.bytes: the buffer, never written
    position,         \* SaveCursor.position
    overflow_checks,  \* TRUE: overflow panics (debug); FALSE: it wraps (release)
    schema,           \* the type whose deserialize the caller invoked
    call,             \* the type whose deserialize is about to run, or NoCall
    stack,            \* the container decodes in progress, innermost last
    ret,              \* what the last finished call returned
    last,             \* the last operation: its name, the position before it
    list,             \* the IndexMap that Gui::draw_indexmap edits
    errors,           \* State.errors.errors
    is_opened,        \* State.errors.is_opened
    popup,            \* whether the popup "Error###error" is open
    notification,     \* State.notification: None, or its close_time
    time,             \* ui.time() of the frame, in tenths of a second
    frame             \* the last frame: its events, its click on OK, and
                      \* whether it closed a notification

\* The state of the user interface.
gui == <<list, errors, is_opened, popup, notification, time, frame>>

vars == <<bytes, position, overflow_checks, schema, call, stack, ret, last,
          list, errors, is_opened, popup, notification, time, frame>>

-----------------------------------------------------------------------------
(* Bounds of the model.                                                    *)

\* The longest buffer of the cursor specification, and the longest run of
\* free bytes after the length prefix of a leaf input.
MaxLen == 3

\* The most elements (or key/value pairs) an input of a container holds.
MaxElems == 3

-----------------------------------------------------------------------------
(* Machine words.                                                          *)

I32Min == -2147483647 - 1

\* a < b for two u32 or two usize values given by their signed views.
UnsignedLt(a, b) ==
    IF (a >= 0) = (b >= 0) THEN a < b ELSE a >= 0

\* i32::abs: overflows only on i32::MIN, where the wrapped result is i32::MIN.
AbsI32(x) ==
    IF x = I32Min THEN [overflow |-> TRUE, value |-> I32Min]
    ELSE [overflow |-> FALSE, value |-> IF x < 0 THEN -x ELSE x]

\* x * 2 on i32; on overflow the wrapped result, x * 2 - 2^32 or x * 2 + 2^32.
DoubleI32(x) ==
    IF x >= 1073741824
    THEN [overflow |-> TRUE, value |-> (x + I32Min) + (x + I32Min)]
    ELSE IF x < -1073741824
    THEN [overflow |-> TRUE, value |-> (x - I32Min) + (x - I32Min)]
    ELSE [overflow |-> FALSE, value |-> x + x]

\* a + b on usize, a a position (small, not negative), b any modelled usize.
\* The sum passes 2^64 exactly when b's view is negative and a + b is not.
AddUsize(a, b) ==
    [overflow |-> b < 0 /\ a + b >= 0, value |-> a + b]

-----------------------------------------------------------------------------
(* Results.  A call returns Ok(value) or Err(error), or panics;  position  *)
(* is the cursor's position when it ends and reads lists the byte counts   *)
(* it asked the cursor for, in order.                                      *)

Ok(v, pos, rs) ==
    [tag |-> "ok", value |-> v, error |-> "", position |-> pos, reads |-> rs]

Err(e, pos, rs) ==
    [tag |-> "err", value |-> <<>>, error |-> e, position |-> pos, reads |-> rs]

Panic(e, pos, rs) ==
    [tag |-> "panic", value |-> <<>>, error |-> e, position |-> pos, reads |-> rs]

UnexpectedEof == "unexpected end of file"
StringEncodingError == "string encoding error"
InvalidEnum == "invalid enum representation"

-----------------------------------------------------------------------------
(* SaveCursor.                                                             *)

\* Read with the position moved before the length test.
ReadAdvancesFirst(buf, pos, num_bytes, checks) ==
    LET end == AddUsize(pos, num_bytes) IN
    IF UnsignedLt(Len(buf), end.value)
    THEN Err(UnexpectedEof, end.value, <<num_bytes>>)
    ELSE Ok(SubSeq(buf, pos + 1, end.value), end.value, <<num_bytes>>)

\* Read without the bounds of the slice enforced: a wrapped end is taken.
ReadTakesWrappedEnd(buf, pos, num_bytes, checks) ==
    LET end == AddUsize(pos, num_bytes) IN
    IF UnsignedLt(Len(buf), end.value)
    THEN Err(UnexpectedEof, pos, <<num_bytes>>)
    ELSE Ok(SubSeq(buf, pos + 1, end.value), end.value, <<num_bytes>>)

\* SaveCursor::read on a cursor at pos over buf.  The addition panics on
\* overflow under overflow checks and wraps without them; a wrapped end lies
\* before pos, passes the length test and makes the slice expression panic.
Read(buf, pos, num_bytes, checks) ==
    LET end == AddUsize(pos, num_bytes) IN
    IF end.overflow /\ checks
    THEN Panic("attempt to add with overflow", pos, <<num_bytes>>)
    ELSE IF UnsignedLt(Len(buf), end.value)
    THEN Err(UnexpectedEof, pos, <<num_bytes>>)
    ELSE IF UnsignedLt(end.value, pos)
    THEN Panic("slice index starts after its end", pos, <<num_bytes>>)
    ELSE Ok(SubSeq(buf, pos + 1, end.value), end.value, <<num_bytes>>)

-----------------------------------------------------------------------------
(* Scalars.                                                                *)

\* size_of::<D>() for the types deserialize_from is called with.
SizeOf(D) ==
    IF D \in {"u8", "i8"} THEN 1 ELSE 4

\* A little-endian 32-bit word as a signed value (the view of a u32).
LeWord(b) ==
    b[1] + 256 * b[2] + 65536 * b[3]
        + 16777216 * (IF b[4] >= 128 THEN b[4] - 256 ELSE b[4])

\* BINCODE.deserialize::<D>: fixed-width, little-endian, trailing bytes allowed.
BincodeDeserialize(D, b) ==
    CASE D = "u8" -> b[1]
      [] D = "i8" -> IF b[1] >= 128 THEN b[1] - 256 ELSE b[1]
      [] OTHER -> LeWord(b)

\* SaveData::deserialize_from::<D>
DeserializeFrom(D, buf, pos, checks) ==
    LET r == Read(buf, pos, SizeOf(D), checks) IN
    IF r.tag # "ok" THEN r
    ELSE Ok(BincodeDeserialize(D, r.value), r.position, r.reads)

\* deserialize_from_bool with the test == 1 in place of != 0.
DeserializeFromBoolIsOne(buf, pos, checks) ==
    LET r == Read(buf, pos, 4, checks) IN
    IF r.tag # "ok" THEN r
    ELSE Ok(LeWord(r.value) = 1, r.position, r.reads)

\* SaveData::deserialize_from_bool
DeserializeFromBool(buf, pos, checks) ==
    LET r == DeserializeFrom("i32", buf, pos, checks) IN
    IF r.tag # "ok" THEN r
    ELSE Ok(r.value # 0, r.position, r.reads)

-----------------------------------------------------------------------------
(* Enums.  An enum type is given by the set of its discriminants, and a    *)
(* variant by its discriminant.                                            *)

\* The enum of the decoded schemas: three variants, 0, 1 and 2.
EnumVariants == {0, 1, 2}

\* FromPrimitive::from_u8 and from_u32 as num-derive generates them: the
\* variant whose discriminant equals n, or None.  A u32 of 2^31 or more (a
\* negative view) equals no discriminant.
FromPrimitive(E, n) ==
    IF n \in E THEN [some |-> TRUE, variant |-> n]
    ELSE [some |-> FALSE, variant |-> 0]

\* The enum decoders with unwrap_or_default() in place of context(...)?.
DeserializeEnumFromOrDefault(D, E, buf, pos, checks) ==
    LET r == Read(buf, pos, SizeOf(D), checks) IN
    IF r.tag # "ok" THEN r
    ELSE Ok(IF BincodeDeserialize(D, r.value) \in E
            THEN BincodeDeserialize(D, r.value) ELSE 0,
            r.position, r.reads)

\* SaveData::deserialize_enum_from_u8 (D = "u8") and
\* SaveData::deserialize_enum_from_u32 (D = "u32")
DeserializeEnumFrom(D, E, buf, pos, checks) ==
    LET r == DeserializeFrom(D, buf, pos, checks) IN
    IF r.tag # "ok" THEN r
    ELSE LET e == FromPrimitive(E, r.value) IN
         IF e.some THEN Ok(e.variant, r.position, r.reads)
         ELSE Err(InvalidEnum, r.position, r.reads)

-----------------------------------------------------------------------------
(* Text.  A decoded text is the sequence of its code points.  The decoders *)
(* are those of the encoding_rs crate; had_errors is exact, and the text   *)
(* of a malformed input (which the caller drops) is approximate.           *)

Replacement == <<65533>>

Cons(cp, rest) ==
    [text |-> cp \o rest.text, had_errors |-> rest.had_errors]

Malformed(rest) ==
    [text |-> Replacement \o rest.text, had_errors |-> TRUE]

\* Encoding::for_bom: the encoding a byte order mark names, and its length.
ForBom(b) ==
    IF Len(b) >= 3 /\ b[1] = 239 /\ b[2] = 187 /\ b[3] = 191
    THEN [encoding |-> "UTF-8", bom_length |-> 3]
    ELSE IF Len(b) >= 2 /\ b[1] = 255 /\ b[2] = 254
    THEN [encoding |-> "UTF-16LE", bom_length |-> 2]
    ELSE IF Len(b) >= 2 /\ b[1] = 254 /\ b[2] = 255
    THEN [encoding |-> "UTF-16BE", bom_length |-> 2]
    ELSE [encoding |-> "", bom_length |-> 0]

\* The code points of the bytes 0x80..0x9F in windows-1252; every other byte
\* is its own code point, and no byte is unmapped.
Windows1252High ==
    <<8364, 129, 8218, 402, 8222, 8230, 8224, 8225, 710, 8240, 352, 8249,
      338, 141, 381, 143, 144, 8216, 8217, 8220, 8221, 8226, 8211, 8212,
      732, 8482, 353, 8250, 339, 157, 382, 376>>

Windows1252Decode(b) ==
    [text |-> [i \in 1..Len(b) |->
                  IF b[i] >= 128 /\ b[i] <= 159
                  THEN Windows1252High[b[i] - 127] ELSE b[i]],
     had_errors |-> FALSE]

\* The 16-bit code unit at bytes i, i + 1.
CodeUnit(b, i, big_endian) ==
    IF big_endian THEN 256 * b[i] + b[i + 1] ELSE b[i] + 256 * b[i + 1]

IsHighSurrogate(u) == u >= 55296 /\ u <= 56319
IsLowSurrogate(u) == u >= 56320 /\ u <= 57343

\* UTF-16 from byte i on: a surrogate pair is one code point; a surrogate
\* without its partner and an odd last byte are malformed.
RECURSIVE Utf16From(_, _, _)
Utf16From(b, i, big_endian) ==
    IF i > Len(b) THEN [text |-> <<>>, had_errors |-> FALSE]
    ELSE IF i = Len(b) THEN [text |-> Replacement, had_errors |-> TRUE]
    ELSE LET u == CodeUnit(b, i, big_endian) IN
         IF IsHighSurrogate(u)
         THEN IF i + 3 <= Len(b) /\ IsLowSurrogate(CodeUnit(b, i + 2, big_endian))
              THEN Cons(<<65536 + (u - 55296) * 1024
                            + (CodeUnit(b, i + 2, big_endian) - 56320)>>,
                        Utf16From(b, i + 4, big_endian))
              ELSE Malformed(Utf16From(b, i + 2, big_endian))
         ELSE IF IsLowSurrogate(u)
         THEN Malformed(Utf16From(b, i + 2, big_endian))
         ELSE Cons(<<u>>, Utf16From(b, i + 2, big_endian))

IsContinuation(b, i, lo, hi) ==
    i <= Len(b) /\ b[i] >= lo /\ b[i] <= hi

\* UTF-8 from byte i on: shortest forms only, no surrogates, at most U+10FFFF.
RECURSIVE Utf8From(_, _)
Utf8From(b, i) ==
    IF i > Len(b) THEN [text |-> <<>>, had_errors |-> FALSE]
    ELSE LET b0 == b[i]
             lo == IF b0 = 224 THEN 160 ELSE IF b0 = 240 THEN 144 ELSE 128
             hi == IF b0 = 237 THEN 159 ELSE IF b0 = 244 THEN 143 ELSE 191
         IN
         IF b0 <= 127 THEN Cons(<<b0>>, Utf8From(b, i + 1))
         ELSE IF b0 >= 194 /\ b0 <= 223 /\ IsContinuation(b, i + 1, 128, 191)
         THEN Cons(<<(b0 - 192) * 64 + (b[i + 1] - 128)>>, Utf8From(b, i + 2))
         ELSE IF b0 >= 224 /\ b0 <= 239 /\ IsContinuation(b, i + 1, lo, hi)
                 /\ IsContinuation(b, i + 2, 128, 191)
         THEN Cons(<<(b0 - 224) * 4096 + (b[i + 1] - 128) * 64
                       + (b[i + 2] - 128)>>,
                   Utf8From(b, i + 3))
         ELSE IF b0 >= 240 /\ b0 <= 244 /\ IsContinuation(b, i + 1, lo, hi)
                 /\ IsContinuation(b, i + 2, 128, 191)
                 /\ IsContinuation(b, i + 3, 128, 191)
         THEN Cons(<<(b0 - 240) * 262144 + (b[i + 1] - 128) * 4096
                       + (b[i + 2] - 128) * 64 + (b[i + 3] - 128)>>,
                   Utf8From(b, i + 4))
         ELSE Malformed(Utf8From(b, i + 1))

\* Encoding::decode_without_bom_handling
DecodeWithoutBomHandling(encoding, b) ==
    CASE encoding = "UTF-16LE" -> Utf16From(b, 1, FALSE)
      [] encoding = "UTF-16BE" -> Utf16From(b, 1, TRUE)
      [] encoding = "UTF-8" -> Utf8From(b, 1)
      [] OTHER -> Windows1252Decode(b)

\* Encoding::decode, which UTF_16LE.decode and WINDOWS_1252.decode are: it
\* sniffs a byte order mark first, and a mark found is removed and selects
\* the encoding in place of the one decode was called on.
Decode(encoding, b) ==
    LET bom == ForBom(b) IN
    DecodeWithoutBomHandling(
        IF bom.bom_length > 0 THEN bom.encoding ELSE encoding,
        SubSeq(b, bom.bom_length + 1, Len(b)))

\* ImString::new: the text as a NUL-terminated buffer whose length is
\* refreshed, so it ends before the first NUL of the text.
RECURSIVE ImStringNew(_)
ImStringNew(text) ==
    IF text = <<>> \/ Head(text) = 0 THEN <<>>
    ELSE <<Head(text)>> \o ImStringNew(Tail(text))

\* ImString::default
ImStringDefault == <<>>

\* string_len of the Unicode branch: (len.abs() * 2) as usize
UnicodeStringLen(len) ==
    LET abs == AbsI32(len)
        dbl == DoubleI32(abs.value)
    IN [overflow |-> abs.overflow \/ dbl.overflow,
        error |-> IF abs.overflow THEN "attempt to negate with overflow"
                  ELSE "attempt to multiply with overflow",
        value |-> dbl.value]

\* SaveData::deserialize_from_string
DeserializeFromString(buf, pos, checks) ==
    LET len == DeserializeFrom("i32", buf, pos, checks) IN
    IF len.tag # "ok" THEN len
    ELSE IF len.value = 0 THEN Ok(ImStringDefault, len.position, len.reads)
    ELSE IF len.value < 0
    THEN LET string_len == UnicodeStringLen(len.value) IN
         IF string_len.overflow /\ checks
         THEN Panic(string_len.error, len.position, len.reads)
         ELSE LET r == Read(buf, len.position, string_len.value, checks)
                  d == Decode("UTF-16LE", r.value)
              IN IF r.tag = "panic" THEN Panic(r.error, r.position, len.reads \o r.reads)
                 ELSE IF r.tag = "err" THEN Err(r.error, r.position, len.reads \o r.reads)
                 ELSE IF d.had_errors
                 THEN Err(StringEncodingError, r.position, len.reads \o r.reads)
                 ELSE Ok(ImStringNew(d.text), r.position, len.reads \o r.reads)
    ELSE LET r == Read(buf, len.position, len.value, checks)
             d == Decode("windows-1252", r.value)
         IN IF r.tag = "panic" THEN Panic(r.error, r.position, len.reads \o r.reads)
            ELSE IF r.tag = "err" THEN Err(r.error, r.position, len.reads \o r.reads)
            ELSE IF d.had_errors
            THEN Err(StringEncodingError, r.position, len.reads \o r.reads)
            ELSE Ok(ImStringNew(d.text), r.position, len.reads \o r.reads)

-----------------------------------------------------------------------------
(* Fixed-size byte arrays.                                                 *)

\* The loop of <[u8; LENGTH] as SaveData>::deserialize from element i on:
\* one deserialize_from::<u8> per element, the first failure returned.
RECURSIVE FixedArrayLoop(_, _, _, _, _, _)
FixedArrayLoop(array, i, buf, pos, checks, rs) ==
    IF i > Len(array) THEN Ok(array, pos, rs)
    ELSE LET byte == DeserializeFrom("u8", buf, pos, checks) IN
         IF byte.tag = "panic" THEN Panic(byte.error, byte.position, rs \o byte.reads)
         ELSE IF byte.tag = "err" THEN Err(byte.error, byte.position, rs \o byte.reads)
         ELSE FixedArrayLoop([array EXCEPT ![i] = byte.value], i + 1,
                             buf, byte.position, checks, rs \o byte.reads)

\* The fixed array taken by one read of LENGTH bytes.
DeserializeFixedArrayBulk(LENGTH, buf, pos, checks) ==
    Read(buf, pos, LENGTH, checks)

\* <[u8; LENGTH] as SaveData>::deserialize
DeserializeFixedArray(LENGTH, buf, pos, checks) ==
    FixedArrayLoop([i \in 1..LENGTH |-> 0], 1, buf, pos, checks, <<>>)

-----------------------------------------------------------------------------
(* Containers.  A Vec is the sequence of its elements and an IndexMap the  *)
(* sequence of its <<key, value>> entries in iteration order.              *)

\* What a call returned, without the cursor fields.
Result(r) == [tag |-> r.tag, value |-> r.value, error |-> r.error]

NoRet == [tag |-> "none", value |-> <<>>, error |-> ""]
NoCall == <<"none">>

\* A container decode in progress: its kind, the types of its elements (elem
\* is the key type of a map, val its value type), the length read, the
\* container so far, the key of the pair being read, and the loop turns made.
Frame(kind, elem, val, len) ==
    [kind |-> kind, elem |-> elem, val |-> val, len |-> len,
     items |-> <<>>, key |-> <<>>, turns |-> 0]

\* An insert that appends the pair whether or not the key is there.
IndexMapInsertAlways(map, k, v) == Append(map, <<k, v>>)

\* IndexMap::insert: an equal key keeps its entry and its place and takes the
\* new value; a new key is appended.
IndexMapInsert(map, k, v) ==
    IF \E i \in 1..Len(map) : map[i][1] = k
    THEN [i \in 1..Len(map) |-> IF map[i][1] = k THEN <<map[i][1], v>> ELSE map[i]]
    ELSE Append(map, <<k, v>>)

\* The loop of deserialize_from_array over 0..len - 1.
ArrayTurnOneShort(f, r) ==
    IF r.tag # "ok" THEN [return |-> TRUE, ret |-> r, frame |-> f]
    ELSE LET vec == Append(f.items, r.value) IN
         IF UnsignedLt(Len(vec) + 1, f.len)
         THEN [return |-> FALSE, ret |-> NoRet, frame |-> [f EXCEPT !.items = vec]]
         ELSE [return |-> TRUE, ret |-> [tag |-> "ok", value |-> vec, error |-> ""],
               frame |-> f]

\* The loop of deserialize_from_array with unwrap_or_default() in place of ?.
ArrayTurnOrDefault(f, r) ==
    LET vec == Append(f.items, IF r.tag = "ok" THEN r.value ELSE 0) IN
    IF UnsignedLt(Len(vec), f.len)
    THEN [return |-> FALSE, ret |-> NoRet, frame |-> [f EXCEPT !.items = vec]]
    ELSE [return |-> TRUE, ret |-> [tag |-> "ok", value |-> vec, error |-> ""],
          frame |-> f]

\* One turn of the loop of deserialize_from_array, from the result r of
\* D::deserialize: `?` returns a failure, a value is pushed, and the loop
\* ends after len turns.
ArrayTurn(f, r) ==
    IF r.tag # "ok" THEN [return |-> TRUE, ret |-> r, frame |-> f]
    ELSE LET vec == Append(f.items, r.value) IN
         IF UnsignedLt(Len(vec), f.len)
         THEN [return |-> FALSE, ret |-> NoRet, frame |-> [f EXCEPT !.items = vec]]
         ELSE [return |-> TRUE, ret |-> [tag |-> "ok", value |-> vec, error |-> ""],
               frame |-> f]

\* The first half of a turn of the loop of deserialize_from_indexmap, from the
\* result r of K::deserialize: `?` returns a failure, a key waits for its value.
IndexMapKeyTurn(f, r) ==
    IF r.tag # "ok" THEN [return |-> TRUE, ret |-> r, frame |-> f]
    ELSE [return |-> FALSE, ret |-> NoRet, frame |-> [f EXCEPT !.key = <<r.value>>]]

\* The second half, from the result r of V::deserialize: `?` returns a
\* failure, the pair is inserted, and the loop ends after len turns (len
\* pairs read, whatever the size of the map).  turns counts the pairs read.
IndexMapValueTurn(f, r) ==
    IF r.tag # "ok" THEN [return |-> TRUE, ret |-> r, frame |-> f]
    ELSE LET map == IndexMapInsert(f.items, f.key[1], r.value)
             turns == f.turns + 1
         IN
         IF UnsignedLt(turns, f.len)
         THEN [return |-> FALSE, ret |-> NoRet,
               frame |-> [f EXCEPT !.items = map, !.key = <<>>, !.turns = turns]]
         ELSE [return |-> TRUE, ret |-> [tag |-> "ok", value |-> map, error |-> ""],
               frame |-> f]

-----------------------------------------------------------------------------
(* The decoded types, and the buffers they are decoded from.               *)

U8 == <<"u8">>
I8 == <<"i8">>
I32 == <<"i32">>
U32 == <<"u32">>
Bool == <<"bool">>
Enum8 == <<"enum8">>
Enum32 == <<"enum32">>
String == <<"string">>
FixedArray(LENGTH) == <<"array", LENGTH>>
Vec(D) == <<"vec", D>>
IndexMap(K, V) == <<"map", K, V>>

Schemas ==
    {U8, I8, I32, U32, Bool, Enum8, Enum32, String,
     FixedArray(0), FixedArray(2),
     Vec(U8), Vec(Enum8), Vec(String), Vec(Vec(U8)),
     IndexMap(U8, U8), IndexMap(Enum8, Enum8)}

\* The four bytes of a 32-bit word, little-endian.
LeBytes(x) ==
    <<x % 256, (x \div 256) % 256, (x \div 65536) % 256, (x \div 16777216) % 256>>

SeqsUpTo(S, n) == UNION {[1..k -> S] : k \in 0..n}

Prefixes(b) == {SubSeq(b, 1, k) : k \in 0..Len(b)}

RECURSIVE Flatten(_)
Flatten(ss) == IF ss = <<>> THEN <<>> ELSE Head(ss) \o Flatten(Tail(ss))

\* Length prefixes: zero, small, negative, and those whose doubled absolute
\* value passes 32 bits.
Words ==
    {LeBytes(x) : x \in {0, 1, 2, 3, 16777216, -1, -2, -3,
                         I32Min, I32Min + 1, I32Min + 2, -1073741825}}

\* Payloads of strings: plain bytes, a NUL, a surrogate's high byte.
TextBytes == {0, 65, 216, 255}

\* More payloads: surrogate pairs, byte order marks, windows-1252 specials.
EdgeTexts ==
    {<<0, 216, 0, 220>>, <<0, 220, 0, 216>>, <<65, 0, 0, 216>>,
     <<239, 187, 191>>, <<239, 187, 191, 65>>, <<239, 187, 191, 128>>,
     <<239, 187, 191, 195, 169>>, <<255, 254>>, <<254, 255>>,
     <<255, 254, 65>>, <<255, 254, 65, 0>>, <<254, 255, 0, 65>>,
     <<128>>, <<128, 159>>, <<65, 0, 66, 0>>}

\* Encodings of one element of a type, well-formed and not, from which the
\* inputs of containers are built.
Samples(T) ==
    CASE T = U8 -> {<<5>>, <<6>>}
      [] T = Enum8 -> {<<1>>, <<7>>}
      [] T = String -> {LeBytes(0), LeBytes(1) \o <<65>>, LeBytes(-1) \o <<0, 216>>}
      [] T = Vec(U8) -> {LeBytes(0), LeBytes(1) \o <<5>>, LeBytes(2) \o <<5, 6>>}
      [] OTHER -> {}

\* Encodings of one key of a map.
KeySamples(K) ==
    CASE K = U8 -> {<<1>>, <<2>>}
      [] OTHER -> Samples(K)

PairSamples(K, V) == {k \o v : k \in KeySamples(K), v \in Samples(V)}

Counts == {LeBytes(x) : x \in {0, 1, 2, 3, -1}}

ContainerInputs(samples) ==
    UNION {Prefixes(c \o Flatten(es)) :
               c \in Counts, es \in SeqsUpTo(samples, MaxElems)}

Inputs(T) ==
    CASE T \in {U8, I8, Enum8} -> SeqsUpTo({0, 1, 2, 7, 127, 128, 255}, 2)
      [] T \in {I32, U32, Bool, Enum32} ->
            UNION {Prefixes(w \o t) : w \in Words, t \in SeqsUpTo({0, 255}, 1)}
      [] T = String ->
            UNION {Prefixes(w \o t) :
                       w \in Words, t \in SeqsUpTo(TextBytes, MaxLen) \cup EdgeTexts}
      [] T[1] = "array" -> SeqsUpTo({0, 1, 255}, T[2] + 1)
      [] T[1] = "vec" -> ContainerInputs(Samples(T[2]))
      [] T[1] = "map" -> ContainerInputs(PairSamples(T[2], T[3]))

-----------------------------------------------------------------------------
(* The decoder: SaveCursor::new(bytes), then <schema as SaveData>::        *)
(* deserialize on it.  A call that decodes no nested value is one step; a  *)
(* Vec or an IndexMap takes one step to read its length and one for every  *)
(* nested value returned to its loop.                                      *)

\* State::default(): no error, no notification, no map on screen.
\* Option<T>: None, or Some of a value.
None == <<>>
Some(x) == <<x>>
NoFrame == [op |-> "none", events |-> <<>>, ok |-> FALSE, closed |-> FALSE]

NoGui ==
    /\ list = <<>>
    /\ errors = <<>>
    /\ is_opened = FALSE
    /\ popup = FALSE
    /\ notification = None
    /\ time = 0
    /\ frame = NoFrame

Init ==
    /\ schema \in Schemas
    /\ bytes \in Inputs(schema)
    /\ overflow_checks \in BOOLEAN
    /\ position = 0
    /\ call = schema
    /\ stack = <<>>
    /\ ret = NoRet
    /\ last = [op |-> "new", before |-> 0, reads |-> <<>>]
    /\ NoGui

Top == stack[Len(stack)]

Pop == SubSeq(stack, 1, Len(stack) - 1)

\* The call in progress returns r.
Return(op, r) ==
    /\ position' = r.position
    /\ ret' = Result(r)
    /\ call' = NoCall
    /\ last' = [op |-> op, before |-> position, reads |-> r.reads]
    /\ UNCHANGED <<bytes, overflow_checks, schema, stack>>
    /\ UNCHANGED gui

\* The loop of the innermost container takes the turn t: it returns, or it
\* calls the deserialize of type next.
Turn(op, t, next) ==
    /\ IF t.return
       THEN stack' = Pop /\ ret' = Result(t.ret) /\ call' = NoCall
       ELSE /\ stack' = [stack EXCEPT ![Len(stack)] = t.frame]
            /\ ret' = NoRet
            /\ call' = next
    /\ last' = [op |-> op, before |-> position, reads |-> <<>>]
    /\ UNCHANGED <<bytes, position, overflow_checks, schema>>
    /\ UNCHANGED gui

\* The length of a container is read: a failure and an empty container
\* return at once, and the loop starts otherwise.
Enter(op, kind, len, elem, val) ==
    /\ position' = len.position
    /\ last' = [op |-> op, before |-> position, reads |-> len.reads]
    /\ IF len.tag # "ok"
       THEN ret' = Result(len) /\ call' = NoCall /\ stack' = stack
       ELSE IF len.value = 0
       THEN /\ ret' = [tag |-> "ok", value |-> <<>>, error |-> ""]
            /\ call' = NoCall /\ stack' = stack
       ELSE /\ ret' = NoRet
            /\ call' = elem
            /\ stack' = Append(stack, Frame(kind, elem, val, len.value))
    /\ UNCHANGED <<bytes, overflow_checks, schema>>
    /\ UNCHANGED gui

\* impl SaveData for i32, u8, i8, u32: Self::deserialize_from(input)
DeserializeScalar ==
    /\ call[1] \in {"u8", "i8", "i32", "u32"}
    /\ Return("deserialize_from",
              DeserializeFrom(call[1], bytes, position, overflow_checks))

\* impl SaveData for bool
DeserializeBool ==
    /\ call[1] = "bool"
    /\ Return("deserialize_from_bool",
              DeserializeFromBool(bytes, position, overflow_checks))

\* An enum stored in a byte: Self::deserialize_enum_from_u8(input)
DeserializeEnumU8 ==
    /\ call[1] = "enum8"
    /\ Return("deserialize_enum_from_u8",
              DeserializeEnumFrom("u8", EnumVariants, bytes, position, overflow_checks))

\* An enum stored in a word: Self::deserialize_enum_from_u32(input)
DeserializeEnumU32 ==
    /\ call[1] = "enum32"
    /\ Return("deserialize_enum_from_u32",
              DeserializeEnumFrom("u32", EnumVariants, bytes, position, overflow_checks))

\* impl SaveData for ImString
DeserializeString ==
    /\ call[1] = "string"
    /\ Return("deserialize_from_string",
              DeserializeFromString(bytes, position, overflow_checks))

\* impl SaveData for [u8; LENGTH]
DeserializeBytes ==
    /\ call[1] = "array"
    /\ Return("deserialize_fixed_array",
              DeserializeFixedArray(call[2], bytes, position, overflow_checks))

\* impl SaveData for Vec<D>: deserialize_from_array up to its loop
DeserializeFromArray ==
    /\ call[1] = "vec"
    /\ Enter("deserialize_from_array", "vec",
             DeserializeFrom("u32", bytes, position, overflow_checks),
             call[2], call[2])

\* vec.push(D::deserialize(input)?)
ArrayPush ==
    /\ stack # <<>> /\ ret.tag \in {"ok", "err"}
    /\ Top.kind = "vec"
    /\ Turn("push", ArrayTurn(Top, ret), Top.elem)

\* impl SaveData for IndexMap<K, V>: deserialize_from_indexmap up to its loop
DeserializeFromIndexMap ==
    /\ call[1] = "map"
    /\ Enter("deserialize_from_indexmap", "map",
             DeserializeFrom("u32", bytes, position, overflow_checks),
             call[2], call[3])

\* map.insert(K::deserialize(input)?, ...): the key is back
IndexMapKey ==
    /\ stack # <<>> /\ ret.tag \in {"ok", "err"}
    /\ Top.kind = "map" /\ Len(Top.key) = 0
    /\ Turn("key", IndexMapKeyTurn(Top, ret), Top.val)

\* map.insert(..., V::deserialize(input)?): the value is back
IndexMapValue ==
    /\ stack # <<>> /\ ret.tag \in {"ok", "err"}
    /\ Top.kind = "map" /\ Len(Top.key) = 1
    /\ Turn("insert", IndexMapValueTurn(Top, ret), Top.elem)

Next ==
    \/ DeserializeScalar
    \/ DeserializeBool
    \/ DeserializeEnumU8
    \/ DeserializeEnumU32
    \/ DeserializeString
    \/ DeserializeBytes
    \/ DeserializeFromArray
    \/ ArrayPush
    \/ DeserializeFromIndexMap
    \/ IndexMapKey
    \/ IndexMapValue

Spec == Init /\ [][Next]_vars

\* The decode has ended: the outermost call returned or panicked.
Done == ret.tag # "none" /\ stack = <<>>

-----------------------------------------------------------------------------
(* The cursor alone: SaveCursor::new(bytes), then any calls of read.  A    *)
(* panic ends the run; a failed read does not.                             *)

\* The byte counts asked for: small ones, and the largest usize values.
ReadSizes == (0..(MaxLen + 1)) \cup {-1, -2, -MaxLen, I32Min}

InitCursor ==
    /\ bytes \in SeqsUpTo({0, 1, 255}, MaxLen)
    /\ overflow_checks \in BOOLEAN
    /\ position = 0
    /\ schema = NoCall
    /\ call = NoCall
    /\ stack = <<>>
    /\ ret = NoRet
    /\ last = [op |-> "new", before |-> 0, reads |-> <<>>]
    /\ NoGui

\* input.read(num_bytes)
CursorRead ==
    /\ ret.tag # "panic"
    /\ \E num_bytes \in ReadSizes :
           LET r == Read(bytes, position, num_bytes, overflow_checks) IN
           /\ position' = r.position
           /\ ret' = Result(r)
           /\ last' = [op |-> "read", before |-> position, reads |-> r.reads]
    /\ UNCHANGED <<bytes, overflow_checks, schema, call, stack>>
    /\ UNCHANGED gui

NextCursor == CursorRead

SpecCursor == InitCursor /\ [][NextCursor]_vars

-----------------------------------------------------------------------------
(* Claims.                                                                 *)

\* C2: on a cursor made by SaveCursor::new, after any reads, successful,
\* failing or panicking, the position lies within the buffer.
C2_PositionInBounds ==
    0 <= position /\ position <= Len(bytes)

\* A read failed at the end of a buffer that earlier reads consumed.
C2_Witness ==
    /\ last.op = "read" /\ ret.tag = "err"
    /\ position = Len(bytes) /\ position > 0

\* position + n > len(buffer) over the naturals, for a usize n given by its view.
PastEnd(p, n, buf) == n < 0 \/ p + n > Len(buf)

\* C3: read(n) fails with unexpected end of file, the position unchanged,
\* exactly when position + n > len(buffer); otherwise it returns the next n
\* bytes and advances the position by n.
C3_ReadContract ==
    last.op = "read" =>
        LET p == last.before
            n == last.reads[1]
        IN IF PastEnd(p, n, bytes)
           THEN ret.tag = "err" /\ ret.error = UnexpectedEof /\ position = p
           ELSE /\ ret.tag = "ok"
                /\ ret.value = SubSeq(bytes, p + 1, p + n)
                /\ position = p + n

\* The length prefix of a string decoded at p, when four bytes are there.
HasPrefix(p) == p + 4 <= Len(bytes)
PrefixAt(p) == LeWord(SubSeq(bytes, p + 1, p + 4))

\* The payload of n bytes after the prefix at p.
PayloadAt(p, n) == SubSeq(bytes, p + 5, p + 4 + n)

\* What a string decode returns for a payload in a given encoding: the text,
\* or a string encoding error when the payload is invalid in it.
DecodedAs(encoding, payload) ==
    LET d == DecodeWithoutBomHandling(encoding, payload) IN
    IF d.had_errors
    THEN ret.tag = "err" /\ ret.error = StringEncodingError
    ELSE ret.tag = "ok" /\ ret.value = ImStringNew(d.text)

\* C4: string decode branches on the sign of the prefix: 0 gives the empty
\* string and consumes the prefix only; a negative length consumes
\* abs(length) * 2 bytes decoded as UTF-16LE; a positive one consumes length
\* bytes decoded as windows-1252; an invalid payload gives a string encoding
\* error.  (A decode that ends with end of file is no case of the claim.)
C4_StringBranches ==
    (last.op = "deserialize_from_string" /\ HasPrefix(last.before)
        /\ ~(ret.tag = "err" /\ ret.error = UnexpectedEof)) =>
        LET p == last.before
            len == PrefixAt(p)
        IN IF len = 0
           THEN ret.tag = "ok" /\ ret.value = <<>> /\ position = p + 4
           ELSE IF len < 0
           THEN /\ len > -Len(bytes)
                /\ position = p + 4 + 2 * (-len)
                /\ DecodedAs("UTF-16LE", PayloadAt(p, 2 * (-len)))
           ELSE /\ position = p + 4 + len
                /\ DecodedAs("windows-1252", PayloadAt(p, len))

\* C5: for every negative prefix, the byte count the UTF-16 branch asks the
\* cursor for is abs(length) * 2, computed without overflow.
C5_UnicodeLengthExact ==
    (last.op = "deserialize_from_string" /\ HasPrefix(last.before)
        /\ PrefixAt(last.before) < 0) =>
        /\ Len(last.reads) = 2
        /\ last.reads[2] >= 0
        /\ last.reads[2] % 2 = 0
        /\ (last.reads[2] \div 2) + PrefixAt(last.before) = 0

\* The count of a container decoded from the start of the buffer, and the
\* byte at offset i of what follows it.
CountAt0 == LeWord(SubSeq(bytes, 1, 4))
After(i) == bytes[4 + i]

\* The first and the last pair of the stream of a map of one-byte keys and
\* values, among pairs 1..c, that has key k.
FirstPair(k, c) == CHOOSE i \in 1..c :
    After(2 * i - 1) = k /\ \A j \in 1..(i - 1) : After(2 * j - 1) # k
LastPair(k, c) == CHOOSE i \in 1..c :
    After(2 * i - 1) = k /\ \A j \in (i + 1)..c : After(2 * j - 1) # k

\* C6: ordered map decode reads a count c and c pairs; the map has one entry
\* for every distinct key, in the order the keys first occur, each with the
\* value of the key's last occurrence.
C6_OrderedMap ==
    (Done /\ schema = IndexMap(U8, U8) /\ Len(bytes) >= 4) =>
        LET c == CountAt0
            m == ret.value
        IN /\ (c >= 0 /\ Len(bytes) >= 4 + 2 * c) <=> ret.tag = "ok"
           /\ ret.tag = "ok" =>
                /\ position = 4 + 2 * c
                /\ {m[j][1] : j \in 1..Len(m)} = {After(2 * i - 1) : i \in 1..c}
                /\ \A j, k \in 1..Len(m) :
                       j < k => FirstPair(m[j][1], c) < FirstPair(m[k][1], c)
                /\ \A j \in 1..Len(m) :
                       m[j][2] = After(2 * LastPair(m[j][1], c))

\* Keys [1, 2, 1] with values [5, 5, 6] give the map 1 -> 6, 2 -> 5.
C6_Witness ==
    /\ Done /\ schema = IndexMap(U8, U8)
    /\ bytes = <<3, 0, 0, 0, 1, 5, 2, 5, 1, 6>>
    /\ ret.tag = "ok" /\ ret.value = <<<<1, 6>>, <<2, 5>>>>

\* C7: sequence decode reads a length n and n elements in source order; for
\* n = 0 it returns the empty sequence and consumes the prefix only.
C7_Sequence ==
    (Done /\ schema[1] = "vec" /\ Len(bytes) >= 4) =>
        LET n == CountAt0 IN
        /\ n = 0 => ret.tag = "ok" /\ ret.value = <<>> /\ position = 4
        /\ ret.tag = "ok" => Len(ret.value) = n
        /\ schema = Vec(U8) =>
              /\ (n >= 0 /\ Len(bytes) >= 4 + n) <=> ret.tag = "ok"
              /\ ret.tag = "ok" =>
                    ret.value = SubSeq(bytes, 5, 4 + n) /\ position = 4 + n
        /\ (schema = Vec(Vec(U8)) /\ ret.tag = "ok") =>
              SubSeq(bytes, 5, position) =
                  Flatten([j \in 1..n |->
                              LeBytes(Len(ret.value[j])) \o ret.value[j]])

\* A sequence of two elements, decoded in source order.
C7_Witness ==
    /\ Done /\ schema = Vec(U8)
    /\ bytes = <<2, 0, 0, 0, 5, 6>>
    /\ ret.tag = "ok" /\ ret.value = <<5, 6>> /\ position = 6

\* C8: enum decode from a byte or a word returns the variant whose
\* discriminant was read, and fails with an invalid enum error, never with a
\* default or clamped variant, when there is none.
C8_Enum ==
    (last.op \in {"deserialize_enum_from_u8", "deserialize_enum_from_u32"}) =>
        LET p == last.before
            width == IF last.op = "deserialize_enum_from_u8" THEN 1 ELSE 4
            read == IF width = 1 THEN bytes[p + 1]
                    ELSE LeWord(SubSeq(bytes, p + 1, p + 4))
        IN IF p + width > Len(bytes)
           THEN ret.tag = "err" /\ ret.error = UnexpectedEof
           ELSE IF read \in EnumVariants
           THEN ret.tag = "ok" /\ ret.value = read /\ position = p + width
           ELSE ret.tag = "err" /\ ret.error = InvalidEnum

\* The byte 7 names no variant of {0, 1, 2}.
C8_Witness ==
    /\ last.op = "deserialize_enum_from_u8" /\ schema = Enum8
    /\ bytes = <<7>>
    /\ ret.tag = "err" /\ ret.error = InvalidEnum

\* C9: boolean decode consumes four bytes and returns false for the value 0
\* and true for any other; with fewer than four bytes left it fails.
C9_Bool ==
    last.op = "deserialize_from_bool" =>
        LET p == last.before IN
        IF p + 4 > Len(bytes)
        THEN ret.tag = "err" /\ position = p
        ELSE /\ ret.tag = "ok"
             /\ position = p + 4
             /\ ret.value = (\E i \in 1..4 : bytes[p + i] # 0)

\* FFFFFFFF decodes to true.
C9_Witness ==
    /\ last.op = "deserialize_from_bool"
    /\ ret.tag = "ok" /\ position = 4
    /\ SubSeq(bytes, 1, 4) = <<255, 255, 255, 255>>
    /\ ret.value = TRUE

\* A container that was returned is complete: every element it holds was
\* read from the buffer, and none was made up.
C10_Complete ==
    (Done /\ ret.tag = "ok" /\ schema[1] \in {"array", "vec", "map"}) =>
        LET n == IF schema[1] = "array" THEN schema[2] ELSE CountAt0 IN
        /\ n >= 0
        /\ schema[1] = "array" =>
              Len(bytes) >= n /\ ret.value = SubSeq(bytes, 1, n)
        /\ schema[1] = "vec" => Len(ret.value) = n
        /\ schema \in {Vec(U8), Vec(Enum8)} =>
              Len(bytes) >= 4 + n /\ ret.value = SubSeq(bytes, 5, 4 + n)
        /\ schema[1] = "map" => Len(bytes) >= 4 + 2 * n
        /\ schema \in {Vec(Enum8), IndexMap(Enum8, Enum8)} =>
              \A i \in 5..position : bytes[i] \in EnumVariants

\* A failure returned to the loop of a container is what the container
\* returns, at the next step and with the cursor where the failure left it.
C10_Propagate ==
    (ret.tag = "err" /\ stack # <<>>) =>
        /\ stack' = Pop
        /\ ret'.tag = "err" /\ ret'.error = ret.error
        /\ position' = position

\* C10: a failure of a nested decode aborts the decode of the enclosing
\* fixed array, sequence or map, which returns that failure: never a partly
\* filled container, never one with a default in place of the element.
C10_NestedFailureAborts ==
    [][C10_Propagate]_vars /\ []C10_Complete

\* A string encoding error of an element came back as the result of the
\* sequence that holds it.
C10_Witness ==
    /\ Done /\ schema = Vec(String) /\ last.op = "push"
    /\ ret.tag = "err" /\ ret.error = StringEncodingError

-----------------------------------------------------------------------------
(* The encoder.  save_data.rs has no encode operation: SaveData declares   *)
(* deserialize and draw_raw_ui only.  Encode is the encoder the            *)
(* specification describes: fixed-width little-endian scalars, a boolean   *)
(* as the word 0 or 1, a string in the branch its text implies (empty,     *)
(* windows-1252 when every character has a byte, UTF-16LE otherwise), a    *)
(* sequence or a map as its count and its elements in order.               *)

InWindows1252(cp) ==
    cp < 128 \/ (cp >= 160 /\ cp <= 255)
       \/ \E i \in 1..32 : Windows1252High[i] = cp

Windows1252Byte(cp) ==
    IF cp < 128 \/ (cp >= 160 /\ cp <= 255) THEN cp
    ELSE 127 + (CHOOSE i \in 1..32 : Windows1252High[i] = cp)

Utf16LeUnits(cp) ==
    IF cp < 65536 THEN <<cp % 256, cp \div 256>>
    ELSE LET hi == 55296 + ((cp - 65536) \div 1024)
             lo == 56320 + ((cp - 65536) % 1024)
         IN <<hi % 256, hi \div 256, lo % 256, lo \div 256>>

EncodeString(text) ==
    IF text = <<>> THEN LeBytes(0)
    ELSE IF \A i \in 1..Len(text) : InWindows1252(text[i])
    THEN LeBytes(Len(text)) \o [i \in 1..Len(text) |-> Windows1252Byte(text[i])]
    ELSE LET units == Flatten([i \in 1..Len(text) |-> Utf16LeUnits(text[i])])
         IN LeBytes(-(Len(units) \div 2)) \o units

RECURSIVE Encode(_, _)
Encode(T, v) ==
    CASE T[1] \in {"u8", "enum8"} -> <<v>>
      [] T[1] = "i8" -> <<v % 256>>
      [] T[1] \in {"i32", "u32", "enum32"} -> LeBytes(v)
      [] T[1] = "bool" -> LeBytes(IF v THEN 1 ELSE 0)
      [] T[1] = "string" -> EncodeString(v)
      [] T[1] = "array" -> v
      [] T[1] = "vec" ->
            LeBytes(Len(v)) \o Flatten([i \in 1..Len(v) |-> Encode(T[2], v[i])])
      [] T[1] = "map" ->
            LeBytes(Len(v)) \o Flatten([i \in 1..Len(v) |->
                Encode(T[2], v[i][1]) \o Encode(T[3], v[i][2])])

\* C1: round trip: the encoding of a value decoded from a buffer, no field
\* changed, is the bytes it was decoded from.
C1_RoundTrip ==
    (Done /\ ret.tag = "ok") =>
        Encode(schema, ret.value) = SubSeq(bytes, 1, position)

-----------------------------------------------------------------------------
(* Forward-only decoding.                                                  *)

RECURSIVE SumOf(_)
SumOf(ns) == IF ns = <<>> THEN 0 ELSE Head(ns) + SumOf(Tail(ns))

\* The cursor is where the first j reads of the last step, each of them
\* forward and each from where the one before ended, have left it.
ReadForward(from, j) ==
    /\ position' = from + SumOf(SubSeq(last'.reads, 1, j))
    /\ \A i \in 1..j : last'.reads[i] >= 0

\* One step of a decode moves the cursor forward or leaves it: the cursor
\* is where the reads of the step that were served have left it, and a
\* step that did not fail had all its reads served.
C11_Forward ==
    /\ ~UnsignedLt(position', position)
    /\ \E j \in 0..Len(last'.reads) : ReadForward(position, j)
    /\ ret'.tag \in {"ok", "none"} =>
          ReadForward(position, Len(last'.reads))

\* C11: during the decode of any value the cursor position never
\* decreases: no byte is read twice and there is no backtracking.
C11_PositionMonotonic == [][C11_Forward]_vars

\* A sequence of sequences was decoded to the end of a buffer that holds
\* two nested sequences.
C11_Witness ==
    /\ Done /\ schema = Vec(Vec(U8)) /\ ret.tag = "ok"
    /\ Len(ret.value) = 2 /\ position = Len(bytes) /\ position > 8

-----------------------------------------------------------------------------
(* The end of a decode.  Every loop of the decoder runs over 0..len for a  *)
(* len read from the buffer, so a decode ends; how it ends is the matter.  *)

\* The outermost call returned Ok or Err to its caller.
Returned == ret.tag \in {"ok", "err"}

\* C12: decode terminates by returning: for every buffer and every type
\* the decode that has ended has returned a value or a failure.
C12_Terminates == Done => Returned

-----------------------------------------------------------------------------
(* Fixed-size byte arrays.                                                 *)

\* C14: the decode of [u8; LENGTH] with LENGTH bytes or more left makes
\* LENGTH reads of one byte, returns those bytes in stream order and moves
\* the cursor by LENGTH; with fewer bytes left it fails with end of file.
C14_FixedArray ==
    last.op = "deserialize_fixed_array" =>
        LET LENGTH == schema[2]
            p == last.before
        IN IF p + LENGTH <= Len(bytes)
           THEN /\ ret.tag = "ok"
                /\ ret.value = SubSeq(bytes, p + 1, p + LENGTH)
                /\ position = p + LENGTH
                /\ last.reads = [i \in 1..LENGTH |-> 1]
           ELSE ret.tag = "err" /\ ret.error = UnexpectedEof

\* Two bytes were taken, one at a time, from a buffer that holds more.
C14_Witness ==
    /\ last.op = "deserialize_fixed_array" /\ schema = FixedArray(2)
    /\ ret.tag = "ok" /\ position = 2 /\ Len(bytes) > 2
    /\ last.reads = <<1, 1>>

-----------------------------------------------------------------------------
(* The map editor: Gui::draw_indexmap on a decoded IndexMap<K, V>, once a  *)
(* frame.  An entry of the map is its key, its value, and the key whose    *)
(* hash the table of the map holds for it: get_index_mut hands out the key *)
(* for writing, and the table is not told of what is written.              *)

Keys == 0..1
Values == 0..1

\* K::default() and V::default()
KDefault == 0
VDefault == 0

\* The entry that an insert of k and v makes.
Bucket(k, v) == [key |-> k, value |-> v, hash |-> k]

\* The maps that deserialize_from_indexmap returns: one entry for a key.
DecodedMaps ==
    {[i \in 1..Len(kvs) |-> Bucket(kvs[i][1], kvs[i][2])] :
        kvs \in {m \in SeqsUpTo(Keys \X Values, MaxElems) :
                    \A i, j \in 1..Len(m) : m[i][1] = m[j][1] => i = j}}

\* list.get_index_mut(i), then key.draw_raw_ui and value.draw_raw_ui: the
\* widgets leave k in the key and v in the value.
GetIndexMut(map, i, k, v) ==
    [map EXCEPT ![i] = [key |-> k, value |-> v, hash |-> map[i].hash]]

\* list.shift_remove_index(i): the entries after i move down by one.
ShiftRemoveIndex(map, i) ==
    [j \in 1..(Len(map) - 1) |-> IF j < i THEN map[j] ELSE map[j + 1]]

\* list.entry(k).or_default(): the lookup goes by the hash and then by the
\* key, so it finds an entry whose key is k where the table holds the hash
\* of k; collide says that the hash held for an entry with another hash
\* falls in the same place of the table.
EntryOrDefault(map, k, collide) ==
    IF \E i \in 1..Len(map) :
           map[i].key = k /\ (map[i].hash = k \/ collide)
    THEN map
    ELSE Append(map, Bucket(k, VDefault))

\* What the user does to the entries in one frame: at most one of them is
\* edited, at most one remove button is clicked.
Edits(map) ==
    {None} \cup {Some(<<i, k, v>>) : i \in 1..Len(map), k \in Keys, v \in Values}

Removes(map) == {None} \cup {Some(i) : i \in 1..Len(map)}

InitIndexmap ==
    /\ bytes = <<>>
    /\ overflow_checks = FALSE
    /\ position = 0
    /\ schema = NoCall
    /\ call = NoCall
    /\ stack = <<>>
    /\ ret = NoRet
    /\ last = [op |-> "none", before |-> 0, reads |-> <<>>]
    /\ list \in DecodedMaps
    /\ errors = <<>>
    /\ is_opened = FALSE
    /\ popup = FALSE
    /\ notification = None
    /\ time = 0
    /\ frame = NoFrame

\* Gui::draw_indexmap(ident, list), tree node and table open.
DrawIndexmap ==
    \E edit \in Edits(list), remove \in Removes(list), add \in BOOLEAN :
    \E collide \in IF add THEN BOOLEAN ELSE {FALSE} :
        LET edited == IF edit = None THEN list
                      ELSE GetIndexMut(list, edit[1][1], edit[1][2], edit[1][3])
            removed == IF remove = None THEN edited
                       ELSE ShiftRemoveIndex(edited, remove[1])
            added == IF add THEN EntryOrDefault(removed, KDefault, collide)
                     ELSE removed
        IN /\ Len(added) <= MaxElems
           /\ list' = added
           /\ frame' = [NoFrame EXCEPT !.op = "draw_indexmap"]
           /\ UNCHANGED <<bytes, position, overflow_checks, schema, call,
                          stack, ret, last>>
           /\ UNCHANGED <<errors, is_opened, popup, notification, time>>

NextIndexmap == DrawIndexmap

SpecIndexmap == InitIndexmap /\ [][NextIndexmap]_vars

\* The keys of the map are pairwise distinct.
KeysDistinct(map) ==
    \A i, j \in 1..Len(map) : map[i].key = map[j].key => i = j

\* C13: in the map editor, after any adds, removes and edits in place of
\* keys and values of a decoded map, the keys of the map are pairwise
\* distinct (and the entries that remain keep their order).
C13_KeysDistinct == KeysDistinct(list)

-----------------------------------------------------------------------------
(* The frame: the closure that run hands to main_loop.  It takes the       *)
(* events waiting on rx, in order, then draws: the error popup, then the   *)
(* notification overlay.  The main window has no title bar and cannot be   *)
(* collapsed, so its begin succeeds and both are drawn in every frame.     *)
(* ui.time() is counted in tenths of a second.                             *)

NOTIFICATION_TIME == 15

MaxTime == 60

\* The time between two frames.
Deltas == {5, 10}

\* UiEvent: the events that the error state and the notification depend on.
Error(err) == <<"Error", err>>
Notification == <<"Notification">>
UiEvents == {Error("e1"), Error("e2"), Notification}

\* The errors among events, in order.
RECURSIVE ErrorsOf(_)
ErrorsOf(events) ==
    IF events = <<>> THEN <<>>
    ELSE IF Head(events)[1] = "Error"
    THEN <<Head(events)[2]>> \o ErrorsOf(Tail(events))
    ELSE ErrorsOf(Tail(events))

\* rx.try_iter().for_each(...) over events at the time now of the frame.
RECURSIVE ForEach(_, _, _)
ForEach(state, events, now) ==
    IF events = <<>> THEN state
    ELSE LET ui_event == Head(events) IN
         ForEach(IF ui_event[1] = "Error"
                 THEN [state EXCEPT !.errors = Append(@, ui_event[2]),
                                    !.is_opened = TRUE]
                 ELSE [state EXCEPT
                          !.notification = Some(now + NOTIFICATION_TIME)],
                 Tail(events), now)

\* Gui::draw_errors on a state whose OK button is drawn but never clears
\* the list.
DrawErrorsKeepsList(state, open, click) ==
    LET opened == open \/ state.is_opened IN
    IF opened /\ click
    THEN [errors |-> state.errors, is_opened |-> FALSE, popup |-> FALSE]
    ELSE [errors |-> state.errors, is_opened |-> state.is_opened,
          popup |-> opened]

\* Gui::draw_errors: open_popup when is_opened; the popup, when it is open,
\* lists the errors and draws OK, and a click on OK empties the list,
\* resets is_opened and closes the popup.
DrawErrors(state, open, click) ==
    LET opened == open \/ state.is_opened IN
    IF opened /\ click
    THEN [errors |-> <<>>, is_opened |-> FALSE, popup |-> FALSE]
    ELSE [errors |-> state.errors, is_opened |-> state.is_opened,
          popup |-> opened]

\* The overlay that closes the notification as soon as its time is reached.
DrawNotificationOverlayAtCloseTime(state, now) ==
    IF state.notification # None /\ state.notification[1] <= now
    THEN None
    ELSE state.notification

\* Gui::draw_nofification_overlay: the notification goes when its
\* close_time is before the time of the frame.
DrawNotificationOverlay(state, now) ==
    IF state.notification # None /\ state.notification[1] < now
    THEN None
    ELSE state.notification

InitGui ==
    /\ bytes = <<>>
    /\ overflow_checks = FALSE
    /\ position = 0
    /\ schema = NoCall
    /\ call = NoCall
    /\ stack = <<>>
    /\ ret = NoRet
    /\ last = [op |-> "none", before |-> 0, reads |-> <<>>]
    /\ NoGui

\* One frame: the events, then Gui::draw.
MainLoopFrame ==
    \E dt \in Deltas, events \in SeqsUpTo(UiEvents, 2) :
        LET now == time + dt
            state == ForEach([errors |-> errors, is_opened |-> is_opened,
                              notification |-> notification], events, now)
        IN /\ now <= MaxTime
           /\ Len(state.errors) <= MaxElems
           /\ \E click \in IF popup \/ state.is_opened THEN BOOLEAN ELSE {FALSE} :
                 LET drawn == DrawErrors(state, popup, click) IN
                 /\ errors' = drawn.errors
                 /\ is_opened' = drawn.is_opened
                 /\ popup' = drawn.popup
                 /\ frame' = [op |-> "frame", events |-> events, ok |-> click,
                              closed |-> /\ state.notification # None
                                         /\ DrawNotificationOverlay(state, now) = None]
           /\ notification' = DrawNotificationOverlay(state, now)
           /\ time' = now
           /\ UNCHANGED <<bytes, position, overflow_checks, schema, call,
                          stack, ret, last, list>>

NextGui == MainLoopFrame

\* main_loop draws frame after frame.
SpecGui == InitGui /\ [][NextGui]_vars /\ WF_vars(NextGui)


\* The popup flag is set exactly when an error is pending.
C15_Flag == is_opened = (errors # <<>>)

\* A frame appends the errors of its events, in order, to the pending
\* ones, and empties the list only on a click on OK.
C15_Step ==
    frame'.op = "frame" =>
        IF frame'.ok
        THEN errors' = <<>> /\ ~is_opened'
        ELSE errors' = errors \o ErrorsOf(frame'.events)

\* C15: across any interleaving of Error events and clicks on OK,
\* is_opened is true exactly when the error list is not empty: an Error
\* event appends its error and sets is_opened, OK clears the list and
\* resets is_opened, and no error is dropped before a click on OK.
C15_ErrorPopup == []C15_Flag /\ [][C15_Step]_vars

\* A second error came in a later frame and joined the first one, the
\* popup still open.
C15_Witness ==
    /\ frame.op = "frame" /\ frame.events = <<Error("e2")>> /\ ~frame.ok
    /\ errors = <<"e1", "e2">> /\ is_opened /\ popup

\* Whether a Notification is among events.
Notifies(events) == \E i \in 1..Len(events) : events[i] = Notification

\* A frame at the time now sets the close_time of a notification that
\* came with it to now + NOTIFICATION_TIME, and clears an older one when
\* now is after its close_time, and then only.
C16_Step ==
    frame'.op = "frame" =>
        IF Notifies(frame'.events)
        THEN notification' = Some(time' + NOTIFICATION_TIME)
        ELSE IF notification # None /\ notification[1] < time'
        THEN notification' = None
        ELSE notification' = notification

\* No Notification came with the last frame.
C16_Quiet == ~Notifies(frame.events)

\* The notification is gone, or its close_time is so late that the frames
\* followed here end before it.
C16_Cleared == notification = None \/ notification[1] > MaxTime - 10

\* C16: a notification set at the time t has close_time t +
\* NOTIFICATION_TIME and is cleared by the first frame whose time is after
\* close_time; a later Notification replaces it and restarts close_time;
\* so, frames being drawn and no Notification coming any more, the
\* notification is cleared in the end.
C16_Notification ==
    /\ [][C16_Step]_vars
    /\ (<>[]C16_Quiet => <>[]C16_Cleared)

\* A frame without events found a notification and cleared it.
C16_Witness ==
    /\ frame.op = "frame" /\ frame.events = <<>> /\ frame.closed
    /\ notification = None

=============================================================================
